---- MODULE Spec2Model ----
(***************************************************************************)
(* State-machine model of sdkConfigurator.py: the ManifestExplorer (fetch, *)
(* import classification, structure analysis) and the state-changing       *)
(* handlers of ManifestConfiguratorGUI (load_manifest and its worker       *)
(* thread, populate_imports, build_config_from_ui, generate_manifest_dict, *)
(* update_preview, save_config, load_config).                              *)
(*                                                                         *)
(* Python values are represented as follows.                               *)
(*   str            a TLA+ string                                          *)
(*   list           a sequence                                             *)
(*   dict (ordered) a sequence of [key, value] records in insertion order, *)
(*                  or, for the parsed YAML/JSON documents whose key order *)
(*                  is never observed, a function over its keys            *)
(*   None           the record NoneValue                                   *)
(* Widgets are not modelled; the Tk variables they are bound to are.       *)
(***************************************************************************)
EXTENDS Integers, Sequences, FiniteSets, TLC

----------------------------------------------------------------------------
(* Bounds of the model *)

\* number of times the user presses "Load NXP Manifest"
MaxLoads == 1
\* number of times the user presses it where loads run beside each other
MaxReloads == 2
\* number of other things the user does: changing a selection, a toggle or
\* the filter text, pressing "Update Preview", "Save Config" or "Load Config"
MaxActions == 3

----------------------------------------------------------------------------
(* Python str methods *)

\* s.endswith(suffix)
EndsWith(s, suffix) ==
    /\ Len(s) >= Len(suffix)
    /\ SubSeq(s, Len(s) - Len(suffix) + 1, Len(s)) = suffix

\* sub in s
Contains(s, sub) ==
    \E i \in 1..(Len(s) - Len(sub) + 1) : SubSeq(s, i, i + Len(sub) - 1) = sub

\* s.replace(old, ""), every occurrence from the left
RECURSIVE Remove(_, _)
Remove(s, old) ==
    IF ~Contains(s, old) THEN s
    ELSE LET i == CHOOSE j \in 1..(Len(s) - Len(old) + 1) :
                     /\ SubSeq(s, j, j + Len(old) - 1) = old
                     /\ \A k \in 1..(j - 1) : SubSeq(s, k, k + Len(old) - 1) # old
         IN  SubSeq(s, 1, i - 1) \o Remove(SubSeq(s, i + Len(old), Len(s)), old)

\* s.strip() for the blank character
RECURSIVE Strip(_)
Strip(s) ==
    IF Len(s) = 0 THEN s
    ELSE IF SubSeq(s, 1, 1) = " " THEN Strip(SubSeq(s, 2, Len(s)))
    ELSE IF SubSeq(s, Len(s), Len(s)) = " " THEN Strip(SubSeq(s, 1, Len(s) - 1))
    ELSE s

\* pathlib.Path(path).name: the final path component
PathName(path) ==
    LET slashes == {i \in 1..Len(path) : SubSeq(path, i, i) = "/"}
        last    == IF slashes = {} THEN 0
                   ELSE CHOOSE i \in slashes : \A j \in slashes : j <= i
    IN  SubSeq(path, last + 1, Len(path))

\* code-point order of the characters that occur in the paths
Ascii == " +-./0123456789ABCDEFGHIJKLMNOPQRSTUVWXYZ_abcdefghijklmnopqrstuvwxyz"

Ord(c) == CHOOSE i \in 1..Len(Ascii) : SubSeq(Ascii, i, i) = c

\* a < b on str (lexicographic by code point)
StrLess(a, b) ==
    LET n    == IF Len(a) < Len(b) THEN Len(a) ELSE Len(b)
        diff == {i \in 1..n : SubSeq(a, i, i) # SubSeq(b, i, i)}
    IN  IF diff = {} THEN Len(a) < Len(b)
        ELSE LET i == CHOOSE j \in diff : \A k \in diff : j <= k
             IN  Ord(SubSeq(a, i, i)) < Ord(SubSeq(b, i, i))

----------------------------------------------------------------------------
(* Python list and dict *)

NoneValue == [py |-> "None"]

\* None in a field annotated str
NoneStr == "None"

\* the elements of a list
Range(s) == {s[i] : i \in 1..Len(s)}

\* [x for x in s if x is in keep]
RECURSIVE Filter(_, _)
Filter(s, keep) ==
    IF s = <<>> THEN <<>>
    ELSE (IF Head(s) \in keep THEN <<Head(s)>> ELSE <<>>) \o Filter(Tail(s), keep)

\* list(d.keys())
DictKeys(d) == [i \in 1..Len(d) |-> d[i].key]

\* k in d
DictHas(d, k) == \E i \in 1..Len(d) : d[i].key = k

\* d[k]
DictGet(d, k) == d[CHOOSE i \in 1..Len(d) : d[i].key = k].value

\* d[k] = v: an existing key keeps its position, a new key goes last
DictSet(d, k, v) ==
    IF DictHas(d, k)
    THEN [i \in 1..Len(d) |-> IF d[i].key = k THEN [key |-> k, value |-> v] ELSE d[i]]
    ELSE Append(d, [key |-> k, value |-> v])

\* d.get(k, default) on a parsed document
Get(d, k, default) == IF k \in DOMAIN d THEN d[k] ELSE default

\* truth value of a list or dict
Truthy(v) == DOMAIN v # {}

\* sorted(contents, key=lambda x: x['name']) (stable)
RECURSIVE SortedByName(_)
SortedByName(s) ==
    IF s = <<>> THEN <<>>
    ELSE LET x    == s[Len(s)]
             rest == SortedByName(SubSeq(s, 1, Len(s) - 1))
             pos  == Cardinality({i \in 1..Len(rest) : ~StrLess(x.name, rest[i].name)})
         IN  SubSeq(rest, 1, pos) \o <<x>> \o SubSeq(rest, pos + 1, Len(rest))

----------------------------------------------------------------------------
(* The remote side: what the manifest URL and the GitHub contents API serve *)

ManifestUrl == "https://raw.githubusercontent.com/nxp-mcuxpresso/mcuxsdk-manifests/main/west.yml"

\* an entry of self.import as yaml.safe_load returns it: a str or a mapping
YamlStr(s) == [ytype |-> "str", value |-> s]
YamlMap(f) == [ytype |-> "map", value |-> f]

\* a document with every passthrough section; an import that is declared
\* twice, and before one of an earlier category; a mapping among the imports
DocFull ==
    [manifest |->
        ("remotes" :> <<[name |-> "nxp", url |-> "https://github.com/nxp-mcuxpresso"]>>)
     @@ ("defaults" :> [remote |-> "nxp"])
     @@ ("group-filter" :> <<"-optional">>)
     @@ ("self" :> (   ("path" :> "manifests")
                    @@ ("west-commands" :> "scripts/west_commands.yml")
                    @@ ("import" :> <<YamlStr("middleware"),
                                      YamlMap("submanifests/extra.yml"),
                                      YamlStr("devices/base.yml"),
                                      YamlStr("middleware")>>)))]

\* a document with nothing but imports
DocBare ==
    [manifest |->
        ("self" :> ("import" :> <<YamlStr("devices/"), YamlStr("core.yml"),
                                  YamlStr("freertos.yml")>>))]

\* the documents the manifest URL may serve; an empty YAML document loads as None
Docs == {DocFull, DocBare, NoneValue}

\* str(e) of the exception requests raises for a failed fetch
FetchErrors == {"404 Client Error: Not Found for url"}

\* str(e) of the AttributeError analyze_imports raises on a None manifest
NoneTypeError == "'NoneType' object has no attribute 'get'"

\* the answers of the contents API for one directory: the status code and,
\* for a listing, the names of the files in it
Responses ==
    { [status |-> 404, files |-> <<>>],
      [status |-> 200, files |-> <<>>],
      [status |-> 200, files |-> <<"mcx.yml", "README.md", "lpc.yml">>] }

----------------------------------------------------------------------------
(* ManifestExplorer *)

\* ManifestExplorer._fetch_directory_contents, against the answers in api
_fetch_directory_contents(dir_path, api) ==
    LET response == api[dir_path]
        files    == response.files
        yml      == Filter(files, {f \in Range(files) : EndsWith(f, ".yml")})
    IN  IF response.status = 200
        THEN [i \in 1..Len(yml) |->
                 [name     |-> Remove(yml[i], ".yml"),
                  filename |-> yml[i],
                  path     |-> dir_path \o yml[i]]]
        ELSE <<>>

\* _analyze_import_path taking any 200 answer for a directory
_analyze_import_path_by_status(path, api) ==
    IF EndsWith(path, ".yml")
    THEN [path |-> path, type |-> "file", contents |-> <<>>, filename |-> PathName(path)]
    ELSE IF EndsWith(path, "/")
    THEN [path |-> path, type |-> "directory",
          contents |-> _fetch_directory_contents(path, api)]
    ELSE IF api[path \o "/"].status = 200
    THEN [path |-> path \o "/", type |-> "directory",
          contents |-> _fetch_directory_contents(path \o "/", api)]
    ELSE [path |-> path, type |-> "file", contents |-> <<>>, filename |-> PathName(path)]

\* ManifestExplorer._analyze_import_path
_analyze_import_path(path, api) ==
    IF EndsWith(path, ".yml")
    THEN [path |-> path, type |-> "file", contents |-> <<>>, filename |-> PathName(path)]
    ELSE IF EndsWith(path, "/")
    THEN [path |-> path, type |-> "directory",
          contents |-> _fetch_directory_contents(path, api)]
    ELSE LET dir_contents == _fetch_directory_contents(path \o "/", api)
         IN  IF dir_contents # <<>>
             THEN [path |-> path \o "/", type |-> "directory", contents |-> dir_contents]
             ELSE [path |-> path, type |-> "file", contents |-> <<>>,
                   filename |-> PathName(path)]

\* manifest.get('manifest', {}).get('self', {}).get('import', [])
DeclaredImports(doc) == Get(Get(Get(doc, "manifest", <<>>), "self", <<>>), "import", <<>>)

\* the directory whose listing _analyze_import_path requests for a path
ProbedDir(path) == IF EndsWith(path, "/") THEN path ELSE path \o "/"

\* the directories analyze_imports requests a listing of
ProbedDirs(doc) ==
    {ProbedDir(e.value) : e \in {x \in Range(DeclaredImports(doc)) :
                                     x.ytype = "str" /\ ~EndsWith(x.value, ".yml")}}

\* the loop of analyze_imports running from the last declared import to the first
RECURSIVE AnalyzeLoopReversed(_, _, _)
AnalyzeLoopReversed(imports, n, api) ==
    IF n = 0 THEN <<>>
    ELSE LET structure   == AnalyzeLoopReversed(imports, n - 1, api)
             import_path == imports[Len(imports) - n + 1]
         IN  IF import_path.ytype = "str"
             THEN DictSet(structure, import_path.value,
                          _analyze_import_path(import_path.value, api))
             ELSE structure

\* the loop of ManifestExplorer.analyze_imports over the first n declared imports
RECURSIVE AnalyzeLoop(_, _, _)
AnalyzeLoop(imports, n, api) ==
    IF n = 0 THEN <<>>
    ELSE LET structure   == AnalyzeLoop(imports, n - 1, api)
             import_path == imports[n]
         IN  IF import_path.ytype = "str"
             THEN DictSet(structure, import_path.value,
                          _analyze_import_path(import_path.value, api))
             ELSE structure

\* ManifestExplorer.analyze_imports on a fetched manifest
analyze_imports(doc, api) == AnalyzeLoop(DeclaredImports(doc), Len(DeclaredImports(doc)), api)

\* ManifestExplorer.get_all_configuration
get_all_configuration(doc) ==
       ("remotes" :> Get(Get(doc, "manifest", <<>>), "remotes", <<>>))
    @@ ("defaults" :> Get(Get(doc, "manifest", <<>>), "defaults", <<>>))
    @@ ("group-filter" :> Get(Get(doc, "manifest", <<>>), "group-filter", <<>>))
    @@ ("self" :> Get(Get(doc, "manifest", <<>>), "self", <<>>))

----------------------------------------------------------------------------
(* ManifestConfig and the saved configuration file *)

\* datetime.now().isoformat() when read during the n-th thing the user does:
\* the clock has advanced between any two of them
Timestamp(n) == "2025-01-01T09:00:0" \o ToString(n)

\* the two kinds of value build_config_from_ui stores in config.imports
PyBool(b) == [kind |-> "bool", bool |-> b, list |-> <<>>]
PyList(l) == [kind |-> "list", bool |-> FALSE, list |-> l]

\* the fields of the dataclass
ConfigFields == {"imports", "group_filters", "use_nxp_remotes", "use_nxp_defaults",
                 "use_nxp_west_commands", "created_at", "nxp_manifest_revision",
                 "nxp_manifest_url"}

\* ManifestConfig(**kwargs) with __post_init__, constructed at time now
ManifestConfig(kwargs, now) ==
    LET created_at == Get(kwargs, "created_at", NoneStr)
    IN  [imports               |-> Get(kwargs, "imports", <<>>),
         group_filters         |-> Get(kwargs, "group_filters", <<>>),
         use_nxp_remotes       |-> Get(kwargs, "use_nxp_remotes", TRUE),
         use_nxp_defaults      |-> Get(kwargs, "use_nxp_defaults", TRUE),
         use_nxp_west_commands |-> Get(kwargs, "use_nxp_west_commands", TRUE),
         created_at            |-> IF created_at = NoneStr THEN now ELSE created_at,
         nxp_manifest_revision |-> Get(kwargs, "nxp_manifest_revision", "main"),
         nxp_manifest_url      |-> Get(kwargs, "nxp_manifest_url", NoneStr)]

\* JSON text, as the value it denotes
JsonBool(b)    == [json |-> IF b THEN "true" ELSE "false"]
JsonNull       == [json |-> "null"]
JsonString(s)  == [json |-> "string", s |-> s]
JsonArray(a)   == [json |-> "array", items |-> a]
JsonObject(m)  == [json |-> "object", members |-> m]
\* text that is not JSON
JsonInvalid    == [json |-> "invalid"]

\* json.dump of a str or None
json_dump_str(v) == IF v = NoneStr THEN JsonNull ELSE JsonString(v)

\* json.dump of a list of str
json_dump_list(l) == JsonArray([i \in 1..Len(l) |-> JsonString(l[i])])

\* json.dump of the imports dict
json_dump_imports(d) ==
    JsonObject([i \in 1..Len(d) |->
        [key   |-> d[i].key,
         value |-> IF d[i].value.kind = "bool" THEN JsonBool(d[i].value.bool)
                   ELSE json_dump_list(d[i].value.list)]])

\* a config_dict from which the entry 'created_at' was left out
json_dump_without_created_at(cfg) ==
    JsonObject(<<
        [key |-> "imports",               value |-> json_dump_imports(cfg.imports)],
        [key |-> "group_filters",         value |-> json_dump_list(cfg.group_filters)],
        [key |-> "use_nxp_remotes",       value |-> JsonBool(cfg.use_nxp_remotes)],
        [key |-> "use_nxp_defaults",      value |-> JsonBool(cfg.use_nxp_defaults)],
        [key |-> "use_nxp_west_commands", value |-> JsonBool(cfg.use_nxp_west_commands)],
        [key |-> "nxp_manifest_revision", value |-> json_dump_str(cfg.nxp_manifest_revision)],
        [key |-> "nxp_manifest_url",      value |-> json_dump_str(cfg.nxp_manifest_url)] >>)

\* the config_dict of save_config, written by json.dump
json_dump(cfg) ==
    JsonObject(<<
        [key |-> "imports",               value |-> json_dump_imports(cfg.imports)],
        [key |-> "group_filters",         value |-> json_dump_list(cfg.group_filters)],
        [key |-> "use_nxp_remotes",       value |-> JsonBool(cfg.use_nxp_remotes)],
        [key |-> "use_nxp_defaults",      value |-> JsonBool(cfg.use_nxp_defaults)],
        [key |-> "use_nxp_west_commands", value |-> JsonBool(cfg.use_nxp_west_commands)],
        [key |-> "created_at",            value |-> json_dump_str(cfg.created_at)],
        [key |-> "nxp_manifest_revision", value |-> json_dump_str(cfg.nxp_manifest_revision)],
        [key |-> "nxp_manifest_url",      value |-> json_dump_str(cfg.nxp_manifest_url)] >>)

\* json.load of one value of a configuration file
RECURSIVE json_load_value(_)
json_load_value(j) ==
    CASE j.json = "true"   -> TRUE
      [] j.json = "false"  -> FALSE
      [] j.json = "null"   -> NoneStr
      [] j.json = "string" -> j.s
      [] j.json = "array"  -> [i \in 1..Len(j.items) |-> json_load_value(j.items[i])]
      [] j.json = "object" ->
            [i \in 1..Len(j.members) |->
                [key   |-> j.members[i].key,
                 value |-> IF j.members[i].value.json \in {"true", "false"}
                           THEN PyBool(json_load_value(j.members[i].value))
                           ELSE PyList(json_load_value(j.members[i].value))]]

\* json.load of a file holding a JSON object, as the keyword arguments it gives
json_load(text) ==
    [k \in {text.members[i].key : i \in 1..Len(text.members)} |->
        json_load_value(DictGet(text.members, k))]

\* files on disk that this run of save_config did not write: not JSON, a
\* JSON array, an object with a key that is no field of ManifestConfig, and
\* a configuration saved earlier that leaves most fields to their defaults
ForeignFiles ==
    { JsonInvalid,
      JsonArray(<<JsonString("imports")>>),
      JsonObject(<<[key |-> "imports", value |-> JsonObject(<<>>)],
                   [key |-> "version", value |-> JsonString("2")]>>),
      JsonObject(<<[key |-> "imports",
                    value |-> JsonObject(<<[key |-> "devices/base.yml",
                                            value |-> JsonBool(FALSE)]>>)],
                   [key |-> "use_nxp_remotes", value |-> JsonBool(FALSE)]>>) }

\* the outcome of lines 652-655 of load_config on a file: the new config,
\* or the exception raised
load_config_outcome(text, now) ==
    IF text.json = "invalid"
    THEN [ok |-> FALSE, error |-> "Expecting value: line 1 column 1 (char 0)"]
    ELSE IF text.json # "object"
    THEN [ok |-> FALSE, error |-> "argument after ** must be a mapping"]
    ELSE IF \E i \in 1..Len(text.members) : text.members[i].key \notin ConfigFields
    THEN [ok |-> FALSE, error |-> "__init__() got an unexpected keyword argument"]
    ELSE [ok |-> TRUE, config |-> ManifestConfig(json_load(text), now)]

----------------------------------------------------------------------------
(* ManifestConfiguratorGUI: the functions of the handlers *)

\* Tk variables: the string Tcl holds for them, with the widget the user
\* changes them through
BooleanVar(b, w) == [cls |-> "BooleanVar", value |-> IF b THEN "1" ELSE "0", widget |-> w]
StringVar(v, w)  == [cls |-> "StringVar", value |-> v, widget |-> w]

\* BooleanVar.get
get_boolean(var) == var.value = "1"

\* the keys of the categories dict of populate_imports, in its order
CategoryNames == <<"Base Files", "Devices", "Middleware", "RTOS", "Other">>

\* the if/elif chain with the test for 'devices' moved to the front
category_of_devices_first(norm_path) ==
    IF Contains(norm_path, "devices") THEN "Devices"
    ELSE IF Contains(norm_path, "base.yml") \/ Contains(norm_path, "internal.yml")
    THEN "Base Files"
    ELSE IF Contains(norm_path, "middleware") THEN "Middleware"
    ELSE IF Contains(norm_path, "rtos") THEN "RTOS"
    ELSE "Other"

\* the if/elif chain of populate_imports
category_of(norm_path) ==
    IF Contains(norm_path, "base.yml") \/ Contains(norm_path, "internal.yml")
    THEN "Base Files"
    ELSE IF Contains(norm_path, "devices") THEN "Devices"
    ELSE IF Contains(norm_path, "middleware") THEN "Middleware"
    ELSE IF Contains(norm_path, "rtos") THEN "RTOS"
    ELSE "Other"

\* the categories dict populate_imports fills: per category, the list of
\* (norm_path, info) it appended, in the iteration order of import_structure
RECURSIVE categorize(_, _)
categorize(structure, n) ==
    IF n = 0 THEN [c \in Range(CategoryNames) |-> <<>>]
    ELSE LET categories == categorize(structure, n - 1)
             info       == structure[n].value
             norm_path  == info.path
             c          == category_of(norm_path)
         IN  [categories EXCEPT ![c] = Append(@, <<norm_path, info>>)]

\* ManifestConfiguratorGUI._guess_default
_guess_default(path) ==
    IF Contains(path, "base.yml") \/ Contains(path, "internal.yml") THEN TRUE
    ELSE IF Contains(path, "rtos") THEN TRUE
    ELSE IF Contains(path, "devices/") /\ EndsWith(path, ".yml") THEN FALSE
    ELSE IF Contains(path, "middleware/") /\ EndsWith(path, "/") THEN TRUE
    ELSE FALSE

\* the file_vars dict of create_directory_options: one unchecked BooleanVar
\* per child, in the order of the names
RECURSIVE file_vars_of(_, _)
file_vars_of(sorted_contents, n) ==
    IF n = 0 THEN <<>>
    ELSE DictSet(file_vars_of(sorted_contents, n - 1), sorted_contents[n].path, FALSE)

\* create_category_section and create_directory_options over the first n
\* items: the import_vars and directory_selections after them
RECURSIVE create_sections(_, _)
create_sections(items, n) ==
    IF n = 0 THEN [import_vars |-> <<>>, directory_selections |-> <<>>]
    ELSE LET before       == create_sections(items, n - 1)
             info         == items[n][2]
             display_path == info.path
         IN  IF info.type = "file"
             THEN [before EXCEPT !.import_vars =
                      DictSet(@, display_path,
                              BooleanVar(_guess_default(display_path), "Checkbutton"))]
             ELSE IF info.contents # <<>>
             THEN [import_vars |->
                      DictSet(before.import_vars, display_path,
                              StringVar("all", "Radiobutton")),
                   directory_selections |->
                      DictSet(before.directory_selections, display_path,
                              file_vars_of(SortedByName(info.contents),
                                           Len(info.contents)))]
             ELSE [before EXCEPT !.import_vars =
                      DictSet(@, display_path, BooleanVar(FALSE, "Label"))]

\* ManifestConfiguratorGUI.populate_imports: the import_vars and
\* directory_selections it leaves
populate_imports(structure) ==
    LET categories == categorize(structure, Len(structure))
        items      == categories["Base Files"] \o categories["Devices"]
                      \o categories["Middleware"] \o categories["RTOS"]
                      \o categories["Other"]
    IN  create_sections(items, Len(items))

\* the group filters build_config_from_ui reads from the text widget, whose
\* content is held as its list of lines
parse_group_filters(lines) ==
    LET kept == Filter(lines, {f \in Range(lines) : Strip(f) # ""})
    IN  [i \in 1..Len(kept) |-> Strip(kept[i])]

\* the checked children of a directory, in the order of its file_vars
selected_files(file_vars) ==
    DictKeys(Filter(file_vars, {fv \in Range(file_vars) : fv.value}))

\* the imports loop storing the directory itself with its selected files
RECURSIVE build_imports_with_directory(_, _, _)
build_imports_with_directory(vars, selections, n) ==
    IF n = 0 THEN <<>>
    ELSE LET imports == build_imports_with_directory(vars, selections, n - 1)
             path    == vars[n].key
             var     == vars[n].value
         IN  IF var.cls = "BooleanVar"
             THEN DictSet(imports, path, PyBool(get_boolean(var)))
             ELSE IF var.value = "all" THEN DictSet(imports, path, PyBool(TRUE))
             ELSE IF var.value = "none" THEN DictSet(imports, path, PyBool(FALSE))
             ELSE DictSet(imports, path,
                          PyList(<<path>> \o selected_files(DictGet(selections, path))))

\* the imports loop of build_config_from_ui over the first n import_vars
RECURSIVE build_imports(_, _, _)
build_imports(vars, selections, n) ==
    IF n = 0 THEN <<>>
    ELSE LET imports == build_imports(vars, selections, n - 1)
             path    == vars[n].key
             var     == vars[n].value
         IN  IF var.cls = "BooleanVar"
             THEN DictSet(imports, path, PyBool(get_boolean(var)))
             ELSE IF var.value = "all" THEN DictSet(imports, path, PyBool(TRUE))
             ELSE IF var.value = "none" THEN DictSet(imports, path, PyBool(FALSE))
             ELSE IF var.value = "selective"
             THEN DictSet(imports, path,
                          PyList(IF DictHas(selections, path)
                                 THEN selected_files(DictGet(selections, path))
                                 ELSE <<>>))
             ELSE imports

\* ManifestConfiguratorGUI.build_config_from_ui: the config it builds from
\* the Tk variables at time now
build_config_from_ui(vars, selections, remotes, defaults, commands, lines, now) ==
    [ManifestConfig(<<>>, now) EXCEPT
        !.use_nxp_remotes       = remotes,
        !.use_nxp_defaults      = defaults,
        !.use_nxp_west_commands = commands,
        !.group_filters         = parse_group_filters(lines),
        !.imports               = build_imports(vars, selections, Len(vars)),
        !.nxp_manifest_url      = ManifestUrl]

\* the imports loop of generate_manifest_dict over the first n config.imports
RECURSIVE flatten_imports(_, _)
flatten_imports(imports, n) ==
    IF n = 0 THEN <<>>
    ELSE LET value == imports[n].value
         IN  IF value.kind = "bool"
             THEN flatten_imports(imports, n - 1)
                  \o (IF value.bool THEN <<imports[n].key>> ELSE <<>>)
             ELSE flatten_imports(imports, n - 1) \o value.list

\* ManifestConfiguratorGUI.generate_manifest_dict
generate_manifest_dict(cfg, doc) ==
    IF doc # NoneValue /\ Truthy(doc)
    THEN LET nxp_config == get_all_configuration(doc)
             self       == nxp_config["self"]
             remotes    == IF cfg.use_nxp_remotes /\ Truthy(nxp_config["remotes"])
                           THEN "remotes" :> nxp_config["remotes"] ELSE <<>>
             defaults   == IF cfg.use_nxp_defaults /\ Truthy(nxp_config["defaults"])
                           THEN "defaults" :> nxp_config["defaults"] ELSE <<>>
             filters    == IF cfg.group_filters # <<>>
                           THEN "group-filter" :> cfg.group_filters ELSE <<>>
             path       == IF "path" \in DOMAIN self
                           THEN "path" :> self["path"] ELSE <<>>
             commands   == IF cfg.use_nxp_west_commands
                              /\ Get(self, "west-commands", "") # ""
                           THEN "west-commands" :> self["west-commands"] ELSE <<>>
             m          == remotes @@ defaults @@ filters @@ ("self" :> (path @@ commands))
         IN  [manifest |->
                 m @@ ("projects" :>
                         <<[name     |-> "mcuxsdk-manifests",
                            remote   |-> Get(Get(m, "defaults", <<>>), "remote",
                                             "nxp-mcuxpresso"),
                            revision |-> "main",
                            import   |-> flatten_imports(cfg.imports,
                                                         Len(cfg.imports))]>>)]
    ELSE [manifest |-> <<>>]

----------------------------------------------------------------------------
(* State *)

VARIABLES
    manifest,              \* explorer.manifest
    import_structure,      \* explorer.import_structure
    github,                \* the answers the contents API gave to the last analysis
    config,                \* self.config
    import_vars,           \* self.import_vars
    directory_selections,  \* self.directory_selections
    use_remotes_var,       \* self.use_remotes_var
    use_defaults_var,      \* self.use_defaults_var
    use_commands_var,      \* self.use_commands_var
    group_filters_text,    \* the lines of self.group_filters_text
    preview_text,          \* the document shown in self.preview_text
    status_var,            \* self.status_var
    dialog,                \* the last messagebox shown
    progress,              \* the loads whose progress bar exists
    config_file,           \* the file save_config wrote
    threads,               \* the threads load_manifest started
    after_queue,           \* the callbacks scheduled with root.after(0, ...)
    actions                \* how many things the user has done besides loading

explorer_vars == <<manifest, import_structure, github>>
selection_vars == <<import_vars, directory_selections>>
settings_vars == <<use_remotes_var, use_defaults_var, use_commands_var, group_filters_text>>
output_vars == <<config, preview_text, config_file>>
thread_vars == <<threads, after_queue, progress>>

vars == <<manifest, import_structure, github, config, import_vars, directory_selections,
          use_remotes_var, use_defaults_var, use_commands_var, group_filters_text,
          preview_text, status_var, dialog, progress, config_file, threads,
          after_queue, actions>>

\* what the user may type into the group filter text
UserTexts == { <<" +extra ", "">>, <<"  ">> }

NoDialog == [kind |-> "none", text |-> ""]

\* the preview widget before any document has been inserted
EmptyPreview == [empty |-> TRUE]

\* ManifestExplorer.__init__, ManifestConfiguratorGUI.__init__, create_widgets
Init ==
    /\ manifest = NoneValue
    /\ import_structure = <<>>
    /\ github = <<>>
    /\ config = ManifestConfig(<<>>, Timestamp(0))
    /\ import_vars = <<>>
    /\ directory_selections = <<>>
    /\ use_remotes_var = TRUE
    /\ use_defaults_var = TRUE
    /\ use_commands_var = TRUE
    /\ group_filters_text = <<>>
    /\ preview_text = EmptyPreview
    /\ status_var = "Ready. Click 'Load NXP Manifest' to begin."
    /\ dialog = NoDialog
    /\ progress = {}
    /\ config_file = NoneValue
    /\ threads = [w \in 1..MaxLoads |-> [pc |-> "unborn"]]
    /\ after_queue = <<>>
    /\ actions = 0

----------------------------------------------------------------------------
(* load_manifest and its thread *)

Callback(fn, arg, w) == [fn |-> fn, arg |-> arg, thread |-> w]

\* ManifestConfiguratorGUI.load_manifest, up to thread.start()
load_manifest ==
    /\ \E w \in DOMAIN threads :
        /\ threads[w].pc = "unborn"
        /\ \A v \in 1..(w - 1) : threads[v].pc # "unborn"
        /\ threads' = [threads EXCEPT ![w].pc = "fetch"]
        /\ progress' = progress \cup {w}
    /\ status_var' = "Loading NXP manifest..."
    /\ UNCHANGED <<explorer_vars, selection_vars, settings_vars, output_vars,
                   dialog, after_queue, actions>>

\* the except clause of load: both callbacks are scheduled while e is bound
load_except(w, e) ==
    /\ after_queue' = after_queue \o
          << Callback("showerror", "Failed to load manifest: " \o e, w),
             Callback("set_status", "Failed to load manifest", w) >>
    /\ threads' = [threads EXCEPT ![w].pc = "except"]

\* load_fetch with a fetch_manifest that forgets the manifest before it requests
load_fetch_clearing(w) ==
    /\ threads[w].pc = "fetch"
    /\ status_var' = "Fetching manifest..."
    /\ \/ \E e \in FetchErrors :
            /\ load_except(w, e)
            /\ manifest' = NoneValue
       \/ \E doc \in Docs :
            /\ manifest' = doc
            /\ threads' = [threads EXCEPT ![w].pc = "analyze"]
            /\ UNCHANGED after_queue
    /\ UNCHANGED <<import_structure, github, selection_vars, settings_vars,
                   output_vars, dialog, progress, actions>>

\* load, lines 310-311: ManifestExplorer.fetch_manifest raises or stores the document
load_fetch(w) ==
    /\ threads[w].pc = "fetch"
    /\ status_var' = "Fetching manifest..."
    /\ \/ \E e \in FetchErrors :
            /\ load_except(w, e)
            /\ UNCHANGED manifest
       \/ \E doc \in Docs :
            /\ manifest' = doc
            /\ threads' = [threads EXCEPT ![w].pc = "analyze"]
            /\ UNCHANGED after_queue
    /\ UNCHANGED <<import_structure, github, selection_vars, settings_vars,
                   output_vars, dialog, progress, actions>>

\* load, lines 317-326 and 332, once analyze_imports has read the imports of doc
load_analyzed(w, doc) ==
    \E api \in [ProbedDirs(doc) -> Responses] :
        LET structure == analyze_imports(doc, api)
            dirs_to_fetch == Cardinality({i \in 1..Len(structure) :
                                             structure[i].value.type = "directory"})
        IN  /\ manifest' = doc
            /\ import_structure' = structure
            /\ github' = api
            /\ status_var' = IF dirs_to_fetch > 0
                             THEN "Fetching contents of " \o ToString(dirs_to_fetch)
                                  \o " directories..."
                             ELSE "Analyzing import structure..."
            /\ after_queue' = after_queue \o
                  << Callback("populate_imports", structure, w),
                     Callback("populate_settings", "", w),
                     Callback("set_status", "Manifest loaded successfully!", w),
                     Callback("destroy_progress", "", w) >>
            /\ threads' = [threads EXCEPT ![w].pc = "done"]

\* load, lines 313-326: ManifestExplorer.analyze_imports, which fetches again
\* when the manifest is None, and the scheduling of the UI updates
load_analyze(w) ==
    /\ threads[w].pc = "analyze"
    /\ IF manifest # NoneValue
       THEN load_analyzed(w, manifest)
       ELSE \/ \E e \in FetchErrors :
                 /\ load_except(w, e)
                 /\ status_var' = "Analyzing import structure..."
                 /\ UNCHANGED explorer_vars
            \/ /\ load_except(w, NoneTypeError)
               /\ status_var' = "Analyzing import structure..."
               /\ UNCHANGED explorer_vars
            \/ \E doc \in Docs \ {NoneValue} : load_analyzed(w, doc)
    /\ UNCHANGED <<selection_vars, settings_vars, output_vars, dialog, progress, actions>>

\* load, line 332 after an exception: the except clause is left, which
\* unbinds its name e
load_finally(w) ==
    /\ threads[w].pc = "except"
    /\ after_queue' = Append(after_queue, Callback("destroy_progress", "", w))
    /\ threads' = [threads EXCEPT ![w].pc = "done"]
    /\ UNCHANGED <<explorer_vars, selection_vars, settings_vars, output_vars,
                   status_var, dialog, progress, actions>>

\* ManifestConfiguratorGUI.populate_settings
populate_settings ==
    IF manifest = NoneValue
    THEN UNCHANGED group_filters_text
    ELSE LET filters == get_all_configuration(manifest)["group-filter"]
         IN  group_filters_text' = IF filters # <<>> THEN filters ELSE group_filters_text

\* the Tk event loop runs the oldest callback scheduled with root.after
run_callback ==
    /\ after_queue # <<>>
    /\ after_queue' = Tail(after_queue)
    /\ LET cb == Head(after_queue)
       IN  CASE cb.fn = "populate_imports" ->
                  /\ import_vars' = populate_imports(cb.arg).import_vars
                  /\ directory_selections' = populate_imports(cb.arg).directory_selections
                  /\ UNCHANGED <<settings_vars, status_var, dialog, progress>>
             [] cb.fn = "populate_settings" ->
                  /\ populate_settings
                  /\ UNCHANGED <<use_remotes_var, use_defaults_var, use_commands_var,
                                 selection_vars, status_var, dialog, progress>>
             [] cb.fn = "set_status" ->
                  /\ status_var' = cb.arg
                  /\ UNCHANGED <<selection_vars, settings_vars, dialog, progress>>
             [] cb.fn = "showerror" ->
                  \* str(e) raises NameError once the except clause has been left
                  /\ dialog' = IF threads[cb.thread].pc = "except"
                               THEN [kind |-> "error", text |-> cb.arg]
                               ELSE dialog
                  /\ UNCHANGED <<selection_vars, settings_vars, status_var, progress>>
             [] cb.fn = "destroy_progress" ->
                  /\ progress' = progress \ {cb.thread}
                  /\ UNCHANGED <<selection_vars, settings_vars, status_var, dialog>>
    /\ UNCHANGED <<explorer_vars, output_vars, threads, actions>>

----------------------------------------------------------------------------
(* The user's changes to the Tk variables *)

\* the user clicks the Checkbutton of a file entry
toggle_import ==
    /\ actions < MaxActions
    /\ \E i \in 1..Len(import_vars) :
        /\ import_vars[i].value.widget = "Checkbutton"
        /\ import_vars' = [import_vars EXCEPT ![i].value.value =
                                              IF @ = "1" THEN "0" ELSE "1"]
    /\ actions' = actions + 1
    /\ UNCHANGED <<explorer_vars, directory_selections, settings_vars, output_vars,
                   status_var, dialog, thread_vars>>

\* the user clicks one of the three Radiobuttons of a directory entry
select_mode ==
    /\ actions < MaxActions
    /\ \E i \in 1..Len(import_vars), mode \in {"all", "selective", "none"} :
        /\ import_vars[i].value.widget = "Radiobutton"
        /\ import_vars[i].value.value # mode
        /\ import_vars' = [import_vars EXCEPT ![i].value.value = mode]
    /\ actions' = actions + 1
    /\ UNCHANGED <<explorer_vars, directory_selections, settings_vars, output_vars,
                   status_var, dialog, thread_vars>>

\* update_files_state: the child widgets of a directory are enabled only
\* while its Radiobutton variable reads "selective"
files_enabled(dir_path) ==
    /\ DictHas(import_vars, dir_path)
    /\ DictGet(import_vars, dir_path).cls = "StringVar"
    /\ DictGet(import_vars, dir_path).value = "selective"

\* the user clicks the Checkbutton of a child of a directory
toggle_file ==
    /\ actions < MaxActions
    /\ \E d \in 1..Len(directory_selections) :
        /\ files_enabled(directory_selections[d].key)
        /\ \E f \in 1..Len(directory_selections[d].value) :
            directory_selections' =
                [directory_selections EXCEPT ![d].value[f].value = ~@]
    /\ actions' = actions + 1
    /\ UNCHANGED <<explorer_vars, import_vars, settings_vars, output_vars,
                   status_var, dialog, thread_vars>>

\* select_all and select_none of create_directory_options
select_all_none ==
    /\ actions < MaxActions
    /\ \E d \in 1..Len(directory_selections), b \in BOOLEAN :
        /\ files_enabled(directory_selections[d].key)
        /\ directory_selections' =
              [directory_selections EXCEPT ![d].value =
                   [f \in 1..Len(@) |-> [key |-> @[f].key, value |-> b]]]
    /\ actions' = actions + 1
    /\ UNCHANGED <<explorer_vars, import_vars, settings_vars, output_vars,
                   status_var, dialog, thread_vars>>

\* the user clicks one of the three Checkbuttons of the settings tab
toggle_setting ==
    /\ actions < MaxActions
    /\ \/ /\ use_remotes_var' = ~use_remotes_var
          /\ UNCHANGED <<use_defaults_var, use_commands_var>>
       \/ /\ use_defaults_var' = ~use_defaults_var
          /\ UNCHANGED <<use_remotes_var, use_commands_var>>
       \/ /\ use_commands_var' = ~use_commands_var
          /\ UNCHANGED <<use_remotes_var, use_defaults_var>>
    /\ actions' = actions + 1
    /\ UNCHANGED <<explorer_vars, selection_vars, group_filters_text, output_vars,
                   status_var, dialog, thread_vars>>

\* the user replaces the content of the group filter text
edit_group_filters ==
    /\ actions < MaxActions
    /\ \E lines \in UserTexts :
        /\ lines # group_filters_text
        /\ group_filters_text' = lines
    /\ actions' = actions + 1
    /\ UNCHANGED <<explorer_vars, selection_vars, use_remotes_var, use_defaults_var,
                   use_commands_var, output_vars, status_var, dialog, thread_vars>>

----------------------------------------------------------------------------
(* Preview, save and load *)

\* build_config_from_ui on the current Tk variables
config_from_ui(now) ==
    build_config_from_ui(import_vars, directory_selections, use_remotes_var,
                         use_defaults_var, use_commands_var, group_filters_text, now)

\* ManifestConfiguratorGUI.update_preview
update_preview ==
    /\ actions < MaxActions
    /\ actions' = actions + 1
    /\ config' = config_from_ui(Timestamp(actions'))
    /\ preview_text' = generate_manifest_dict(config', manifest)
    /\ status_var' = "Preview updated"
    /\ UNCHANGED <<explorer_vars, selection_vars, settings_vars, config_file,
                   dialog, thread_vars>>

\* ManifestConfiguratorGUI.save_config with a file name chosen
save_config ==
    /\ actions < MaxActions
    /\ actions' = actions + 1
    /\ config' = config_from_ui(Timestamp(actions'))
    /\ config_file' = json_dump(config')
    /\ status_var' = "Configuration saved to config.json"
    /\ dialog' = [kind |-> "info", text |-> "Configuration saved successfully!"]
    /\ UNCHANGED <<explorer_vars, selection_vars, settings_vars, preview_text,
                   thread_vars>>

\* the files the user can choose in load_config
ReadableFiles == ForeignFiles \cup (IF config_file = NoneValue THEN {} ELSE {config_file})

\* load_config assigning a fresh ManifestConfig before it reads the file
load_config_resetting(text) ==
    /\ actions < MaxActions
    /\ actions' = actions + 1
    /\ LET outcome == load_config_outcome(text, Timestamp(actions'))
       IN  IF outcome.ok
           THEN /\ config' = outcome.config
                /\ status_var' = "Configuration loaded from config.json"
                /\ dialog' = [kind |-> "info",
                              text |-> "Configuration loaded! Update preview to see changes."]
           ELSE /\ config' = ManifestConfig(<<>>, Timestamp(actions'))
                /\ dialog' = [kind |-> "error",
                              text |-> "Failed to load configuration: " \o outcome.error]
                /\ UNCHANGED status_var
    /\ UNCHANGED <<explorer_vars, selection_vars, settings_vars, preview_text,
                   config_file, thread_vars>>

\* ManifestConfiguratorGUI.load_config with the file text chosen
load_config_of(text) ==
    /\ actions < MaxActions
    /\ actions' = actions + 1
    /\ LET outcome == load_config_outcome(text, Timestamp(actions'))
       IN  IF outcome.ok
           THEN /\ config' = outcome.config
                /\ status_var' = "Configuration loaded from config.json"
                /\ dialog' = [kind |-> "info",
                              text |-> "Configuration loaded! Update preview to see changes."]
           ELSE /\ dialog' = [kind |-> "error",
                              text |-> "Failed to load configuration: " \o outcome.error]
                /\ UNCHANGED <<config, status_var>>
    /\ UNCHANGED <<explorer_vars, selection_vars, settings_vars, preview_text,
                   config_file, thread_vars>>

\* ManifestConfiguratorGUI.load_config
load_config == \E text \in ReadableFiles : load_config_of(text)

----------------------------------------------------------------------------
(* Specification *)

Next ==
    \/ load_manifest
    \/ \E w \in DOMAIN threads : load_fetch(w)
    \/ \E w \in DOMAIN threads : load_analyze(w)
    \/ \E w \in DOMAIN threads : load_finally(w)
    \/ run_callback
    \/ toggle_import
    \/ select_mode
    \/ toggle_file
    \/ select_all_none
    \/ toggle_setting
    \/ edit_group_filters
    \/ update_preview
    \/ save_config
    \/ load_config

Spec == Init /\ [][Next]_vars

\* what happens around a load: the steps of its thread and of the event
\* loop, while the user changes the settings
NextLoading ==
    \/ load_manifest
    \/ \E w \in DOMAIN threads : load_fetch(w)
    \/ \E w \in DOMAIN threads : load_analyze(w)
    \/ \E w \in DOMAIN threads : load_finally(w)
    \/ run_callback
    \/ toggle_setting
    \/ edit_group_filters

\* the program with its scheduling: a started thread runs on to its end, and
\* the Tk event loop runs every callback scheduled with root.after. A step
\* of run_callback is enabled exactly when after_queue is not empty, so the
\* second conjunct is the weak fairness of run_callback.
FairSpec ==
    /\ Init /\ [][NextLoading]_vars
    /\ ([]<>(after_queue = <<>>) \/ []<><<run_callback>>_vars)
    /\ \A w \in 1..MaxLoads :
          /\ WF_vars(load_fetch(w))
          /\ WF_vars(load_analyze(w))
          /\ WF_vars(load_finally(w))

\* the same program when the user presses "Load NXP Manifest" again: the
\* loads run as threads beside each other, and of the other commands the
\* user changes selections and presses "Update Preview"
InitReload ==
    /\ manifest = NoneValue
    /\ import_structure = <<>>
    /\ github = <<>>
    /\ config = ManifestConfig(<<>>, Timestamp(0))
    /\ import_vars = <<>>
    /\ directory_selections = <<>>
    /\ use_remotes_var = TRUE
    /\ use_defaults_var = TRUE
    /\ use_commands_var = TRUE
    /\ group_filters_text = <<>>
    /\ preview_text = EmptyPreview
    /\ status_var = "Ready. Click 'Load NXP Manifest' to begin."
    /\ dialog = NoDialog
    /\ progress = {}
    /\ config_file = NoneValue
    /\ threads = [w \in 1..MaxReloads |-> [pc |-> "unborn"]]
    /\ after_queue = <<>>
    /\ actions = 0

NextReload ==
    \/ load_manifest
    \/ \E w \in DOMAIN threads : load_fetch(w)
    \/ \E w \in DOMAIN threads : load_analyze(w)
    \/ \E w \in DOMAIN threads : load_finally(w)
    \/ run_callback
    \/ toggle_import
    \/ select_mode
    \/ update_preview

SpecReload == InitReload /\ [][NextReload]_vars

----------------------------------------------------------------------------
(* Claims about ManifestExplorer *)

\* the str entries of self.import, in the order of their declaration
declared_strings(doc) ==
    LET imports == DeclaredImports(doc)
        strs    == Filter(imports, {x \in Range(imports) : x.ytype = "str"})
    IN  [i \in 1..Len(strs) |-> strs[i].value]

\* the position at which a str is first declared
first_declared(strs, s) == CHOOSE i \in 1..Len(strs) : strs[i] = s /\ \A j \in 1..(i - 1) : strs[j] # s

\* the keys of a mapping are the declared strings, each once, ordered as
\* they are first declared
in_declared_order(structure, doc) ==
    LET strs == declared_strings(doc)
        keys == DictKeys(structure)
    IN  /\ Range(keys) = Range(strs)
        /\ \A i, j \in 1..Len(keys) :
              i < j => first_declared(strs, keys[i]) < first_declared(strs, keys[j])

\* C8: whenever the thread of load_manifest has run analyze_imports, the
\* mapping it stored iterates its entries in the order in which the import
\* strings are declared in the self.import of the manifest it analyzed.
C8_AnalyzeKeepsDeclarationOrder ==
    [][\A w \in DOMAIN threads :
          (threads[w].pc = "analyze" /\ threads'[w].pc = "done")
              => in_declared_order(import_structure', manifest')]_vars

\* C8 witness: analyze_imports has stored the mapping of a manifest that
\* declares "middleware" before and after "devices/base.yml".
C8_Witness ==
    /\ manifest = DocFull
    /\ Len(import_structure) = 2
    /\ import_structure[1].key = "middleware"
    /\ import_structure[2].key = "devices/base.yml"

\* the listing fetched at a directory during the last analysis is non-empty:
\* the contents API answered 200 with some file whose name ends in .yml
listing_non_empty(dir_path) ==
    /\ github[dir_path].status = 200
    /\ \E f \in Range(github[dir_path].files) : EndsWith(f, ".yml")

\* C2: for every analyzed raw path P that ends neither with '.yml' nor with
\* '/', the entry is a directory with path P + '/' if the listing fetched at
\* P + '/' is non-empty, and a file with path P unchanged if it is empty.
C2_AmbiguousPathIsDirectoryIffListed ==
    \A i \in 1..Len(import_structure) :
        LET P    == import_structure[i].key
            info == import_structure[i].value
        IN  (~EndsWith(P, ".yml") /\ ~EndsWith(P, "/")) =>
               IF listing_non_empty(P \o "/")
               THEN info.type = "directory" /\ info.path = P \o "/"
               ELSE info.type = "file" /\ info.path = P

\* C2 witness: "middleware" was analyzed against a non-empty listing of
\* "middleware/" and became the directory "middleware/".
C2_Witness ==
    /\ DictHas(import_structure, "middleware")
    /\ listing_non_empty("middleware/")
    /\ DictGet(import_structure, "middleware").path = "middleware/"

\* the patterns of the categories, in priority order; Other has none
CategoryPatterns ==
    << {"base.yml", "internal.yml"}, {"devices"}, {"middleware"}, {"rtos"} >>

\* the category of the first pattern a path contains, else Other
first_match(norm_path) ==
    LET hits == {k \in 1..Len(CategoryPatterns) :
                    \E pat \in CategoryPatterns[k] : Contains(norm_path, pat)}
    IN  IF hits = {} THEN "Other"
        ELSE CategoryNames[CHOOSE k \in hits : \A h \in hits : k <= h]

\* C7: populate_imports places every entry of the import structure in
\* exactly one of the five categories, the first in priority order whose
\* pattern its normalized path contains.
C7_CategoryIsFirstMatch ==
    LET categories == categorize(import_structure, Len(import_structure))
        placed(c)  == {categories[c][k][1] : k \in 1..Len(categories[c])}
    IN  /\ \A i \in 1..Len(import_structure) :
              LET norm_path == import_structure[i].value.path
              IN  \A c \in Range(CategoryNames) :
                      norm_path \in placed(c) <=> c = first_match(norm_path)
        /\ Len(categories["Base Files"]) + Len(categories["Devices"])
              + Len(categories["Middleware"]) + Len(categories["RTOS"])
              + Len(categories["Other"]) = Len(import_structure)

\* C7 witness: the structure holds "devices/base.yml", which contains the
\* patterns of two categories, and an entry of another category.
C7_Witness ==
    /\ DictHas(import_structure, "devices/base.yml")
    /\ \E i \in 1..Len(import_structure) :
          first_match(import_structure[i].value.path) = "Middleware"

----------------------------------------------------------------------------
(* Claims about the saved configuration file *)

\* C6: right after save_config, loading the file it wrote, at any later
\* time, succeeds and yields a ManifestConfig equal to the saved one in
\* every field.
C6_SavedFileLoadsEqual ==
    status_var = "Configuration saved to config.json" =>
        \A n \in 0..(MaxActions + 1) :
            LET outcome == load_config_outcome(config_file, Timestamp(n))
            IN  outcome.ok /\ outcome.config = config

\* C6 witness: a configuration was saved whose imports hold both a bool and
\* a non-empty list of selected files.
C6_Witness ==
    /\ status_var = "Configuration saved to config.json"
    /\ \E i, j \in 1..Len(config.imports) :
          /\ config.imports[i].value.kind = "bool"
          /\ config.imports[j].value.kind = "list"
          /\ config.imports[j].value.list # <<>>

\* C10: when load_config fails on the chosen file, it shows an error and
\* leaves self.config, the selections and the settings as they were.
C10_FailedLoadLeavesStateUntouched ==
    [][\A text \in ReadableFiles :
          (load_config_of(text) /\ ~load_config_outcome(text, Timestamp(actions')).ok)
              => /\ dialog'.kind = "error"
                 /\ config' = config
                 /\ UNCHANGED <<selection_vars, settings_vars>>]_vars

\* C10 witness: a load has failed after a configuration with imports had
\* been built, and that configuration is still there.
C10_Witness ==
    /\ dialog.kind = "error"
    /\ Contains(dialog.text, "Failed to load configuration")
    /\ config.imports # <<>>

----------------------------------------------------------------------------
(* Claims about the generated document *)

\* the document has a projects section
has_projects(document) ==
    /\ "manifest" \in DOMAIN document
    /\ "projects" \in DOMAIN document.manifest

\* the import list of the generated document
import_list(document) == document.manifest["projects"][1].import

\* C5: whenever update_preview generates an import list, for every directory
\* whose Radiobutton variable reads "selective" the list holds every checked
\* child, never the directory's own path, and an unchecked child only if it
\* is an import entry of its own.
C5_SelectiveEmitsOnlyChosenChildren ==
    [][(update_preview /\ has_projects(preview_text')) =>
          \A i \in 1..Len(import_vars) :
              LET path == import_vars[i].key
                  var  == import_vars[i].value
              IN  (var.cls = "StringVar" /\ var.value = "selective") =>
                     LET file_vars == DictGet(directory_selections, path)
                         chosen    == {fv.key : fv \in {x \in Range(file_vars) : x.value}}
                         unchosen  == {fv.key : fv \in {x \in Range(file_vars) : ~x.value}}
                         emitted   == Range(import_list(preview_text'))
                     IN  /\ path \notin emitted
                         /\ chosen \subseteq emitted
                         /\ \A u \in unchosen : u \in emitted => DictHas(import_vars, u)]_vars

\* C5 witness: a preview was generated from a configuration in which a
\* directory contributes a non-empty list of selected files.
C5_Witness ==
    /\ status_var = "Preview updated"
    /\ has_projects(preview_text)
    /\ \E i \in 1..Len(config.imports) :
          /\ config.imports[i].value.kind = "list"
          /\ config.imports[i].value.list # <<>>
          /\ Range(config.imports[i].value.list) \subseteq Range(import_list(preview_text))
          /\ config.imports[i].key \notin Range(import_list(preview_text))

\* the positions, in the iteration order of a structure, of the entries that
\* produce an emitted path: the entry of that normalized path, or a directory
\* entry that lists it
producers(structure, p) ==
    {i \in 1..Len(structure) :
        \/ structure[i].value.path = p
        \/ \E c \in Range(structure[i].value.contents) : c.path = p}

\* the first entry of a structure that produces an emitted path
first_producer(structure, p) ==
    CHOOSE i \in producers(structure, p) : \A k \in producers(structure, p) : i <= k

\* C1: whenever update_preview generates an import list, the list holds the
\* emitted paths in the order in which analyze_imports produced their import
\* entries, whatever category each entry is displayed under.
C1_ImportListInAnalysisOrder ==
    [][(update_preview /\ has_projects(preview_text')) =>
          LET emitted == import_list(preview_text')
          IN  \A i, j \in 1..Len(emitted) :
                  (/\ i < j
                   /\ producers(import_structure, emitted[i]) # {}
                   /\ producers(import_structure, emitted[j]) # {})
                      => first_producer(import_structure, emitted[i])
                            <= first_producer(import_structure, emitted[j])]_vars

\* the selection a Tk variable of import_vars stands for
selection_mode(var) ==
    IF var.cls = "StringVar" THEN var.value
    ELSE IF get_boolean(var) THEN "all" ELSE "none"

\* C3: when populate_imports presents the import structure, a file entry is
\* included iff its path contains 'base.yml', 'internal.yml' or 'rtos', and
\* a directory entry gets mode "all" iff its normalized path is under
\* 'middleware/' and mode "none" otherwise.
C3_InitialSelectionFollowsGuess ==
    [][(run_callback /\ Head(after_queue).fn = "populate_imports") =>
          \A i \in 1..Len(import_structure) :
              LET info == import_structure[i].value
                  var  == DictGet(import_vars', info.path)
              IN  IF info.type = "file"
                  THEN get_boolean(var) <=>
                          (\/ Contains(info.path, "base.yml")
                           \/ Contains(info.path, "internal.yml")
                           \/ Contains(info.path, "rtos"))
                  ELSE selection_mode(var) =
                          IF Contains(info.path, "middleware/") THEN "all" ELSE "none"]_vars

\* C4: when update_preview is requested while explorer.manifest is None, an
\* error is shown and no document is put in the preview.
C4_PreviewWithoutManifestFails ==
    [][(update_preview /\ manifest = NoneValue) =>
          /\ dialog'.kind = "error"
          /\ preview_text' = preview_text]_vars

\* the manifest section of the fetched document, empty when none is fetched
source_manifest == IF manifest = NoneValue THEN <<>> ELSE Get(manifest, "manifest", <<>>)

\* C9: in every document update_preview generates, 'remotes', 'defaults' and
\* 'self.west-commands' are present iff their toggle is set and the source
\* has them, 'self.path' is present whenever the source has it, and
\* 'group-filter' is present iff the user's list of group filters is
\* non-empty, in which case it is exactly that list.
C9_SectionsAreGated ==
    [][update_preview =>
          LET m       == preview_text'.manifest
              self    == Get(m, "self", <<>>)
              source  == source_manifest
              srcself == Get(source, "self", <<>>)
              user    == parse_group_filters(group_filters_text)
          IN  /\ ("remotes" \in DOMAIN m)
                    <=> (use_remotes_var /\ "remotes" \in DOMAIN source)
              /\ ("defaults" \in DOMAIN m)
                    <=> (use_defaults_var /\ "defaults" \in DOMAIN source)
              /\ ("west-commands" \in DOMAIN self)
                    <=> (use_commands_var /\ "west-commands" \in DOMAIN srcself)
              /\ ("path" \in DOMAIN srcself) => ("path" \in DOMAIN self)
              /\ ("group-filter" \in DOMAIN m) <=> (user # <<>>)
              /\ (user # <<>>) => (m["group-filter"] = user)]_vars

\* the gating of the sections in the documents generated from a fetched manifest
SectionsAreGatedOnceFetched ==
    [][(update_preview /\ manifest # NoneValue) =>
          LET m       == preview_text'.manifest
              self    == Get(m, "self", <<>>)
              source  == source_manifest
              srcself == Get(source, "self", <<>>)
              user    == parse_group_filters(group_filters_text)
          IN  /\ ("remotes" \in DOMAIN m)
                    <=> (use_remotes_var /\ "remotes" \in DOMAIN source)
              /\ ("defaults" \in DOMAIN m)
                    <=> (use_defaults_var /\ "defaults" \in DOMAIN source)
              /\ ("west-commands" \in DOMAIN self)
                    <=> (use_commands_var /\ "west-commands" \in DOMAIN srcself)
              /\ ("path" \in DOMAIN srcself) => ("path" \in DOMAIN self)
              /\ ("group-filter" \in DOMAIN m) <=> (user # <<>>)
              /\ (user # <<>>) => (m["group-filter"] = user)]_vars

----------------------------------------------------------------------------
(* Claims about loads that fail and loads that repeat *)

\* the thread of load w leaves its try block because a fetch of the root
\* manifest raised
fetch_failed(w) ==
    /\ threads[w].pc \in {"fetch", "analyze"}
    /\ threads'[w].pc = "except"
    /\ \E e \in FetchErrors :
          after_queue' = after_queue \o
              << Callback("showerror", "Failed to load manifest: " \o e, w),
                 Callback("set_status", "Failed to load manifest", w) >>

\* a later step of a load that was aborted: its finally clause, or one of
\* the callbacks its except clause scheduled
aborted_load_step(w) ==
    \/ threads[w].pc = "except" /\ threads'[w].pc = "done"
    \/ /\ run_callback
       /\ Head(after_queue).thread = w
       /\ \/ Head(after_queue).fn = "showerror"
          \/ /\ Head(after_queue).fn = "set_status"
             /\ Head(after_queue).arg = "Failed to load manifest"

\* C11: when a fetch of the root manifest fails during a load, that step and
\* every later step of the aborted load leave the fetched manifest, the
\* import structure and the selections as they were, whatever loads came
\* before.
C11_FailedFetchLeavesLoadedStateUntouched ==
    [][\A w \in DOMAIN threads :
          (fetch_failed(w) \/ aborted_load_step(w))
              => UNCHANGED <<manifest, import_structure, import_vars,
                             directory_selections>>]_vars

\* C11 witness: after a first load succeeded and the user changed a
\* selection, the fetch of a second load has failed, and the manifest and
\* the changed selection are still there.
C11_Witness ==
    /\ threads[1].pc = "done"
    /\ threads[2].pc = "except"
    /\ \E e \in FetchErrors :
          \E k \in 1..Len(after_queue) :
              after_queue[k] = Callback("showerror", "Failed to load manifest: " \o e, 2)
    /\ manifest # NoneValue
    /\ import_structure # <<>>
    /\ \E i \in 1..Len(import_vars) : import_vars[i].value.value = "selective"

\* C12: whenever fetch_manifest or analyze_imports raises inside a load, the
\* user is eventually shown an error message with the text of the raised
\* error.
C12_FailedLoadShowsItsError ==
    \A w \in 1..MaxLoads :
        (threads[w].pc = "except")
            ~> (/\ dialog.kind = "error"
                /\ \E e \in FetchErrors \cup {NoneTypeError} :
                      dialog.text = "Failed to load manifest: " \o e)

\* the user has changed the selection of the i-th entry of import_vars: it
\* differs from what the entry was created with
changed_by_user(i) ==
    LET path == import_vars[i].key
        var  == import_vars[i].value
    IN  IF var.widget = "Checkbutton" THEN get_boolean(var) # _guess_default(path)
        ELSE IF var.widget = "Radiobutton" THEN var.value # "all"
        ELSE FALSE

\* C13: once the user has changed the selection of an entry, a later
\* populate_imports that presents the same entries again does not put that
\* entry back to its default.
C13_ChangedSelectionSurvivesReload ==
    [][(/\ run_callback
        /\ Head(after_queue).fn = "populate_imports"
        /\ DictKeys(import_vars') = DictKeys(import_vars))
          => \A i \in 1..Len(import_vars) :
                 changed_by_user(i) =>
                     import_vars'[i].value.value = import_vars[i].value.value]_vars

----------------------------------------------------------------------------
(* Claims about the thread of a load *)

\* a step taken by the thread of a load, not by the Tk event loop
worker_step ==
    \E w \in DOMAIN threads :
        /\ threads[w].pc \in {"fetch", "analyze", "except"}
        /\ threads'[w].pc # threads[w].pc

\* C14: no step of the thread of a load writes the status text, the
\* selection and settings variables, the preview, a dialog or the progress
\* bar; those only change in steps of the Tk event loop.
C14_WorkerLeavesPresentationStateAlone ==
    [][worker_step => UNCHANGED <<status_var, selection_vars, settings_vars,
                                  preview_text, dialog, progress>>]_vars

----------------------------------------------------------------------------
(* Claims about a loaded configuration *)

\* C15: when update_preview is the next thing done after load_config
\* succeeded, the document it generates is the one of the loaded
\* configuration: its import list and its toggles are those of the file.
C15_PreviewShowsLoadedConfiguration ==
    [][(update_preview /\ status_var = "Configuration loaded from config.json")
          => preview_text' = generate_manifest_dict(config, manifest)]_vars

----------------------------------------------------------------------------
(* Claims about previews during a reload *)

\* the entries of import_vars are those populate_imports presents for a
\* manifest, under some answers of the contents API
selections_are_of(doc) ==
    \E api \in [ProbedDirs(doc) -> Responses] :
        DictKeys(import_vars)
            = DictKeys(populate_imports(analyze_imports(doc, api)).import_vars)

\* C16: whenever update_preview generates a document from selections the
\* user was presented, the manifest its passthrough sections are copied from
\* is the manifest those selections were presented for.
C16_PreviewIsOfOneManifest ==
    [][(update_preview /\ has_projects(preview_text') /\ import_vars # <<>>)
          => selections_are_of(manifest)]_vars

====
